---- MODULE Spec2Model ----
(***************************************************************************)
(* RemotesGitSubProvider (src/env/node/git/sub-providers/remotes.ts):      *)
(* getRemotes with its promise cache, and the gated mutations addRemote,   *)
(* pruneRemote and removeRemote, run on a single-threaded event loop with  *)
(* suspension at every await.                                              *)
(* ExplainCommitCommand (src/commands/explainCommit.ts): preExecute and    *)
(* execute, with the pickers, the commit provider and the AI service as    *)
(* the environment.                                                        *)
(***************************************************************************)
EXTENDS Integers, Sequences, FiniteSets, TLC

VARIABLES
    tool,     \* the external tool's remotes per repository, in listing order
    cache,    \* this.cache.remotes: repoPath -> id of the cached promise
    calls,    \* the getRemotes calls issued so far, in call order
    loads,    \* loads[i]: the promise of load() started by call i, if any
    muts,     \* the addRemote/pruneRemote/removeRemote calls, in call order
    gate,     \* per repoPath: the gated calls queued, the head holding the gate
    explain   \* the execution of ExplainCommitCommand, if one was started

provider == <<tool, cache, calls, loads, muts, gate>>
vars == <<tool, cache, calls, loads, muts, gate, explain>>

----------------------------------------------------------------------------
\* Bounds

MaxOps == 3        \* calls of the provider's methods issued in a behaviour

----------------------------------------------------------------------------
\* Values

Repos == {"repoA", "repoB"}
ToolErrors == {"ProcessError"}

None == "none"
NoEntry == 0       \* Map.get of a key the map does not hold (no promise id)
Undefined == "undefined"
NoFilter == "nofilter"

Origin == [name |-> "origin", url |-> "https://x"]
Upstream == [name |-> "upstream", url |-> "https://y"]
InitialListing == <<Upstream>>
Added == {Origin}  \* the remotes the mutating calls name

----------------------------------------------------------------------------
\* The external tool (git), seen through this.git.exec

NoProc ==
    [status |-> "none", cwd |-> None, argv |-> <<>>, ok |-> FALSE,
     stdout |-> <<>>, error |-> None, n |-> 0]

\* this.git.exec({cwd}, ...args): one process; undefined arguments are skipped
exec(cwd, args, n) ==
    [status |-> "running", cwd |-> cwd,
     argv |-> SelectSeq(args, LAMBDA a : a # Undefined),
     ok |-> FALSE, stdout |-> <<>>, error |-> None, n |-> n + 1]

\* `remote -v` prints a fetch line and a push line per remote
RECURSIVE ToolStdout(_)
ToolStdout(listing) ==
    IF listing = <<>> THEN <<>>
    ELSE <<[name |-> Head(listing).name, url |-> Head(listing).url, dir |-> "fetch"],
           [name |-> Head(listing).name, url |-> Head(listing).url, dir |-> "push"]>>
         \o ToolStdout(Tail(listing))

HasName(listing, name) == \E i \in DOMAIN listing : listing[i].name = name

\* what a successful run of argv leaves as the repository's remotes
ToolEffect(listing, argv) ==
    IF argv[2] = "add"
    THEN Append(listing, [name |-> argv[Len(argv) - 1], url |-> argv[Len(argv)]])
    ELSE IF argv[2] = "remove"
    THEN SelectSeq(listing, LAMBDA r : r.name # argv[3])
    ELSE listing

\* whether argv can succeed on the listing: add needs a new name, prune and
\* remove an existing one
ToolCanSucceed(listing, argv) ==
    IF argv[2] = "add" THEN ~HasName(listing, argv[Len(argv) - 1])
    ELSE IF argv[2] \in {"remove", "prune"} THEN HasName(listing, argv[3])
    ELSE TRUE

\* parseGitRemotes: one record per distinct name, in first-occurrence order
RECURSIVE parseGitRemotes(_, _)
parseGitRemotes(stdout, seen) ==
    IF stdout = <<>> THEN <<>>
    ELSE IF Head(stdout).name \in seen
    THEN parseGitRemotes(Tail(stdout), seen)
    ELSE <<[name |-> Head(stdout).name, url |-> Head(stdout).url]>>
         \o parseGitRemotes(Tail(stdout), seen \cup {Head(stdout).name})

\* sortRemotes: in place, origin first, then by name
NameRank(name) == IF name = "origin" THEN 1 ELSE 2
sortRemotes(remotes) ==
    SortSeq(remotes, LAMBDA a, b : NameRank(a.name) < NameRank(b.name))

\* options.filter: r => r.url === url
Filters == {NoFilter, Origin.url}
ApplyFilter(remotes, filter) == SelectSeq(remotes, LAMBDA r : r.url = filter)

----------------------------------------------------------------------------
\* State after construction

NoLoad ==
    [repoPath |-> None, stage |-> "none", proc |-> NoProc, value |-> <<>>,
     logged |-> None, evicted |-> FALSE, ack |-> 0]

\* ExplainCommitCommandArgs with nothing given, and the command before it
\* is executed: args as execute holds them, given the source the caller
\* passed, ai the calls of the AI service, errors and previews what was
\* shown, exit the statement execute left by
NoSource == [source |-> Undefined, type |-> Undefined]
NoArgs == [repoPath |-> None, rev |-> None, source |-> NoSource]
NoRun ==
    [pc |-> "idle", via |-> None, node |-> FALSE, stash |-> FALSE,
     given |-> NoSource, args |-> NoArgs, repository |-> None, commit |-> None,
     ai |-> <<>>, result |-> None, errors |-> <<>>, previews |-> <<>>,
     logged |-> None, exit |-> None]

Init ==
    /\ explain = NoRun
    /\ tool = [p \in Repos |-> InitialListing]
    /\ cache = [p \in Repos |-> NoEntry]
    /\ calls = <<>>
    /\ loads = <<>>
    /\ muts = <<>>
    /\ gate = [p \in Repos |-> <<>>]

\* successful tool mutations of repoPath completed so far
Acked(repoPath) ==
    Cardinality({m \in DOMAIN muts :
        /\ muts[m].repoPath = repoPath
        /\ muts[m].stage = "done"
        /\ muts[m].op # "addRemoteWithResult"})

----------------------------------------------------------------------------
\* The cache map and the cache-reset listener

\* a delete that clears the whole map
CacheDelete_All(repoPath) == [p \in Repos |-> NoEntry]

\* this.cache.remotes.delete(repoPath); the load whose promise was held is
\* marked as evicted
CacheDelete(repoPath) == [cache EXCEPT ![repoPath] = NoEntry]
MarkEvicted(repoPath) ==
    [i \in DOMAIN loads |->
        IF cache[repoPath] = i THEN [loads[i] EXCEPT !.evicted = TRUE] ELSE loads[i]]

\* the git:cache:reset listener: drops the remotes entry of each event's
\* repoPath, synchronously while the event fires
CacheAfterEvents(fired) ==
    [p \in Repos |->
        IF \E i \in DOMAIN fired :
              /\ fired[i].name = "git:cache:reset"
              /\ fired[i].repoPath = p
              /\ \E k \in DOMAIN fired[i].types : fired[i].types[k] = "remotes"
        THEN NoEntry ELSE cache[p]]
LoadsAfterEvents(fired) ==
    [i \in DOMAIN loads |->
        IF /\ loads[i].stage # "none"
           /\ cache[loads[i].repoPath] = i
           /\ CacheAfterEvents(fired)[loads[i].repoPath] = NoEntry
        THEN [loads[i] EXCEPT !.evicted = TRUE] ELSE loads[i]]

\* a cache-reset fired by another part of the host for repoPath
ExternalReset(repoPath) ==
    /\ cache[repoPath] # NoEntry
    /\ cache' = CacheDelete(repoPath)
    /\ loads' = MarkEvicted(repoPath)
    /\ UNCHANGED <<explain, tool, calls, muts, gate>>

----------------------------------------------------------------------------
\* getRemotes

NoResult == [kind |-> "none", of |-> 0, arr |-> <<>>]

\* getRemotes without its cache set
CacheAfterMiss_NoSet(repoPath, id) == cache

\* this.cache.remotes?.set(repoPath, remotesPromise)
CacheAfterMiss(repoPath, id) == [cache EXCEPT ![repoPath] = id]

\* the record of a getRemotes call awaiting a promise; owner is the
\* addRemoteWithResult call that made it (0: a caller outside the provider)
CallRecord(repoPath, promise, owner) ==
    [repoPath |-> repoPath, filter |-> NoFilter, sort |-> FALSE,
     promise |-> promise, stage |-> "awaiting", result |-> NoResult,
     owner |-> owner]

\* the promise of load() as it suspends at getConfigured()
LoadRecord(repoPath, ack) ==
    [NoLoad EXCEPT !.repoPath = repoPath, !.stage = "providers", !.ack = ack]

\* a getRemotes that returns [undefined] when it is given no repoPath
EarlyReturn_NonEmpty == <<Undefined>>

\* if (repoPath == null) return []
EarlyReturn == <<>>

\* the call up to its first suspension: without a repoPath it returns at
\* once; otherwise the cache lookup and, on a miss, the start of load()
\* (which suspends at getConfigured()) and the cache set. options.filter and
\* options.sort are first read after the await, where AfterAwait draws them.
GetRemotes(repoPath) ==
    /\ Len(calls) + Len(muts) < MaxOps
    /\ LET id == Len(calls) + 1
           remotesPromise == IF repoPath = None THEN NoEntry ELSE cache[repoPath]
           call == CallRecord(repoPath, remotesPromise, 0)
       IN IF repoPath = None
          THEN /\ calls' = Append(calls,
                      [call EXCEPT !.stage = "returned",
                                   !.result = [kind |-> "own", of |-> 0,
                                               arr |-> EarlyReturn]])
               /\ loads' = Append(loads, NoLoad)
               /\ UNCHANGED cache
          ELSE IF remotesPromise # NoEntry
          THEN /\ calls' = Append(calls, call)
               /\ loads' = Append(loads, NoLoad)
               /\ UNCHANGED cache
          ELSE /\ calls' = Append(calls, [call EXCEPT !.promise = id])
               /\ loads' = Append(loads, LoadRecord(repoPath, Acked(repoPath)))
               /\ cache' = CacheAfterMiss(repoPath, id)
    /\ UNCHANGED <<explain, tool, muts, gate>>

\* load(): getConfigured() settles and loadRemoteProviders runs, outside the
\* try; then git.exec starts `remote -v`
LoadProviders(f) ==
    /\ loads[f].stage = "providers"
    /\ \E ok \in BOOLEAN :
        loads' = [loads EXCEPT ![f] =
            IF ok
            THEN [@ EXCEPT !.stage = "exec",
                           !.proc = exec(loads[f].repoPath, <<"remote", "-v">>,
                                         loads[f].proc.n)]
            ELSE [@ EXCEPT !.stage = "rejected"]]
    /\ UNCHANGED <<explain, tool, cache, calls, muts, gate>>

\* the tool process of a load exits: it printed the listing, or it failed
ToolExitLoad(f) ==
    /\ loads[f].proc.status = "running"
    /\ \/ loads' = [loads EXCEPT ![f] =
              [@ EXCEPT !.proc = [@ EXCEPT !.status = "exited", !.ok = TRUE,
                                           !.stdout = ToolStdout(tool[loads[f].repoPath])]]]
       \/ \E e \in ToolErrors :
           loads' = [loads EXCEPT ![f] =
              [@ EXCEPT !.proc = [@ EXCEPT !.status = "exited", !.error = e]]]
    /\ UNCHANGED <<explain, tool, cache, calls, muts, gate>>

\* a catch block that leaves the key in the cache
CacheAfterFailure_Keep(repoPath) == cache

\* the catch block: this.cache.remotes?.delete(repoPath)
CacheAfterFailure(repoPath) == CacheDelete(repoPath)

\* catch (ex): delete the key, log, return []
LoadCatch(f, ex) ==
    /\ cache' = CacheAfterFailure(loads[f].repoPath)
    /\ loads' = [i \in DOMAIN loads |->
          IF i = f
          THEN [loads[i] EXCEPT !.stage = "fulfilled", !.value = <<>>, !.logged = ex,
                                !.evicted = @ \/ (cache[loads[f].repoPath] = f
                                                   /\ cache'[loads[f].repoPath] = NoEntry)]
          ELSE IF cache[loads[f].repoPath] = i /\ cache'[loads[f].repoPath] = NoEntry
          THEN [loads[i] EXCEPT !.evicted = TRUE]
          ELSE loads[i]]

\* load() resumes after git.exec: on success it awaits
\* getRemoteProviderMatcher, on failure it runs the catch block
LoadExecDone(f) ==
    /\ loads[f].stage = "exec"
    /\ loads[f].proc.status = "exited"
    /\ IF loads[f].proc.ok
       THEN /\ loads' = [loads EXCEPT ![f] = [@ EXCEPT !.stage = "matcher"]]
            /\ UNCHANGED cache
       ELSE LoadCatch(f, loads[f].proc.error)
    /\ UNCHANGED <<explain, tool, calls, muts, gate>>

\* getRemoteProviderMatcher settles and parseGitRemotes runs, inside the try
LoadMatcher(f) ==
    /\ loads[f].stage = "matcher"
    /\ \/ /\ loads' = [loads EXCEPT ![f] =
                [@ EXCEPT !.stage = "fulfilled",
                          !.value = parseGitRemotes(loads[f].proc.stdout, {})]]
          /\ UNCHANGED cache
       \/ LoadCatch(f, "MatcherError")
    /\ UNCHANGED <<explain, tool, calls, muts, gate>>

\* a filter that removes the rejected elements from the awaited array itself
CachedValueAfter_FilterInPlace(value, filter, sort) ==
    IF filter = NoFilter
    THEN (IF sort THEN sortRemotes(value) ELSE value)
    ELSE (IF sort THEN sortRemotes(ApplyFilter(value, filter)) ELSE ApplyFilter(value, filter))

\* the array the cached promise holds once a call with these options has
\* run its filter and sort: sortRemotes sorts the array it is given in place
CachedValueAfter(value, filter, sort) ==
    IF filter = NoFilter /\ sort THEN sortRemotes(value) ELSE value

\* the array the call returns: the awaited array itself, or the array
\* remotes.filter() created
ResultOf(f, value, filter, sort) ==
    IF filter = NoFilter
    THEN [kind |-> "ref", of |-> f, arr |-> <<>>]
    ELSE [kind |-> "own", of |-> 0,
          arr |-> IF sort THEN sortRemotes(ApplyFilter(value, filter))
                  ELSE ApplyFilter(value, filter)]

\* the array a returned call's caller holds
Observed(c) ==
    IF calls[c].result.kind = "ref"
    THEN loads[calls[c].result.of].value
    ELSE calls[c].result.arr

----------------------------------------------------------------------------
\* addRemote, pruneRemote, removeRemote

\* addRemote passing -f whatever options.fetch says
AddRemoteArgs_AlwaysFetch(name, url, fetch) == <<"remote", "add", "-f", name, url>>

AddRemoteArgs(name, url, fetch) ==
    <<"remote", "add", IF fetch THEN "-f" ELSE Undefined, name, url>>
PruneRemoteArgs(name) == <<"remote", "prune", name>>
RemoveRemoteArgs(name) == <<"remote", "remove", name>>

ArgsOf(mut) ==
    IF mut.op = "addRemote" THEN AddRemoteArgs(mut.name, mut.url, mut.fetch)
    ELSE IF mut.op = "pruneRemote" THEN PruneRemoteArgs(mut.name)
    ELSE RemoveRemoteArgs(mut.name)

\* addRemote without its @gate()
Gated_AddUngated(op) == op \in {"addRemoteWithResult", "pruneRemote", "removeRemote"}

\* the methods that carry @gate()
Gated(op) == op \in {"addRemote", "addRemoteWithResult", "pruneRemote", "removeRemote"}

\* methods that fire nothing, that fire whether or not git.exec succeeded,
\* and that fire the reset for another cache type
FiredAfter_Never(op, repoPath, ok) == <<>>
FiredAfter_Always(op, repoPath, ok) ==
    <<[name |-> "git:cache:reset", repoPath |-> repoPath, types |-> <<"remotes">>]>>
FiredAfter_WrongType(op, repoPath, ok) ==
    IF ok
    THEN <<[name |-> "git:cache:reset", repoPath |-> repoPath, types |-> <<"branches">>]>>
    ELSE <<>>

\* the events a method fires once its git.exec has settled: on success one
\* git:cache:reset for the repository's remotes, on failure none (the
\* rejection leaves the method before the fire)
FiredAfter(op, repoPath, ok) ==
    IF ok
    THEN <<[name |-> "git:cache:reset", repoPath |-> repoPath, types |-> <<"remotes">>]>>
    ELSE <<>>

\* the gate of a key: free when no call holds it; a call joins the queue
\* of its key and leaves it when it settles; the head of the queue runs
GateFree(key) == gate[key] = <<>>
GateEnter(key, id) == [gate EXCEPT ![key] = Append(@, id)]
GateLeave(key, id) == [gate EXCEPT ![key] = SelectSeq(@, LAMBDA x : x # id)]
GateTurn(key, id) == gate[key] # <<>> /\ Head(gate[key]) = id

\* the record of a call of a gated method: owner is the addRemoteWithResult
\* call that made it (0: a caller outside the provider), inner the addRemote
\* call and query the getRemotes call an addRemoteWithResult made
MutRecord(op, repoPath, name, url, fetch, owner) ==
    [op |-> op, repoPath |-> repoPath, name |-> name, url |-> url,
     fetch |-> fetch, stage |-> "queued", proc |-> NoProc,
     error |-> None, fired |-> <<>>, owner |-> owner, inner |-> 0,
     query |-> 0, result |-> None]

\* the body of call id up to its first await. addRemote, pruneRemote and
\* removeRemote start git.exec. addRemoteWithResult calls this.addRemote,
\* itself a gated call of the same repoPath: it runs at once when the gate
\* is free and waits in the gate's queue otherwise
Body(ms, g, id) ==
    IF ms[id].op = "addRemoteWithResult"
    THEN LET k == Len(ms) + 1
             p == ms[id].repoPath
             runsNow == ~Gated("addRemote") \/ g[p] = <<>>
             inner == MutRecord("addRemote", p, ms[id].name, ms[id].url,
                                ms[id].fetch, id)
         IN [muts |-> Append([ms EXCEPT ![id] = [@ EXCEPT !.stage = "adding",
                                                          !.inner = k]],
                             IF runsNow
                             THEN [inner EXCEPT !.stage = "exec",
                                                !.proc = exec(p, ArgsOf(inner), 0)]
                             ELSE inner),
             gate |-> IF Gated("addRemote")
                      THEN [g EXCEPT ![p] = Append(@, k)] ELSE g]
    ELSE [muts |-> [ms EXCEPT ![id] =
                      [@ EXCEPT !.stage = "exec",
                                !.proc = exec(ms[id].repoPath, ArgsOf(ms[id]),
                                              ms[id].proc.n)]],
          gate |-> g]

\* a call of a gated method: it runs at once when the gate of its repoPath
\* is free and waits in the gate's queue otherwise
Call(op, repoPath, name, url, fetch) ==
    /\ Len(calls) + Len(muts) < MaxOps
    /\ LET id == Len(muts) + 1
           runsNow == ~Gated(op) \/ GateFree(repoPath)
           ms == Append(muts, MutRecord(op, repoPath, name, url, fetch, 0))
           g == IF Gated(op) THEN GateEnter(repoPath, id) ELSE gate
       IN /\ muts' = IF runsNow THEN Body(ms, g, id).muts ELSE ms
          /\ gate' = IF runsNow THEN Body(ms, g, id).gate ELSE g
    /\ UNCHANGED <<explain, tool, cache, calls, loads>>

AddRemote(repoPath, name, url, fetch) == Call("addRemote", repoPath, name, url, fetch)
AddRemoteWithResult(repoPath, name, url, fetch) ==
    Call("addRemoteWithResult", repoPath, name, url, fetch)
PruneRemote(repoPath, name) == Call("pruneRemote", repoPath, name, None, FALSE)
RemoveRemote(repoPath, name) == Call("removeRemote", repoPath, name, None, FALSE)

\* a queued call reaches the head of its gate and runs its body
GateResume(m) ==
    /\ muts[m].stage = "queued"
    /\ GateTurn(muts[m].repoPath, m)
    /\ muts' = Body(muts, gate, m).muts
    /\ gate' = Body(muts, gate, m).gate
    /\ UNCHANGED <<explain, tool, cache, calls, loads>>

\* the tool process of a mutation exits: it changed the remotes, or it
\* failed and left them as they were
ToolExitMut(m) ==
    /\ muts[m].proc.status = "running"
    /\ LET p == muts[m].repoPath
           argv == muts[m].proc.argv
       IN \/ /\ ToolCanSucceed(tool[p], argv)
             /\ tool' = [tool EXCEPT ![p] = ToolEffect(@, argv)]
             /\ muts' = [muts EXCEPT ![m] =
                   [@ EXCEPT !.proc = [@ EXCEPT !.status = "exited", !.ok = TRUE]]]
          \/ /\ \E e \in ToolErrors :
                   muts' = [muts EXCEPT ![m] =
                      [@ EXCEPT !.proc = [@ EXCEPT !.status = "exited", !.error = e]]]
             /\ UNCHANGED tool
    /\ UNCHANGED <<explain, cache, calls, loads, gate>>

\* the method resumes after git.exec: on success it fires the cache reset
\* and resolves, on failure it rejects with the tool's error; either way it
\* leaves the gate. When an addRemoteWithResult awaits the call, that
\* method resumes in turn: after a success it calls getRemotes (the lookup
\* and, on a miss, the start of load() and the cache set) and awaits it,
\* after a failure it rejects with the same error and leaves the gate.
Settle(m) ==
    /\ muts[m].stage = "exec"
    /\ muts[m].proc.status = "exited"
    /\ LET p == muts[m].repoPath
           w == muts[m].owner
           ok == muts[m].proc.ok
           fired == FiredAfter(muts[m].op, p, ok)
           settled == [muts EXCEPT ![m] =
                IF ok
                THEN [@ EXCEPT !.stage = "done", !.fired = fired]
                ELSE [@ EXCEPT !.stage = "failed", !.fired = fired,
                               !.error = muts[m].proc.error]]
           left == IF Gated(muts[m].op) THEN GateLeave(p, m) ELSE gate
           id == Len(calls) + 1
           remotesPromise == CacheAfterEvents(fired)[p]
       IN IF w = 0
          THEN /\ cache' = CacheAfterEvents(fired)
               /\ loads' = LoadsAfterEvents(fired)
               /\ muts' = settled
               /\ gate' = left
               /\ UNCHANGED calls
          ELSE IF ok
          THEN /\ muts' = [settled EXCEPT ![w] =
                     [@ EXCEPT !.stage = "querying", !.query = id]]
               /\ gate' = left
               /\ IF remotesPromise # NoEntry
                  THEN /\ calls' = Append(calls, CallRecord(p, remotesPromise, w))
                       /\ loads' = Append(LoadsAfterEvents(fired), NoLoad)
                       /\ cache' = CacheAfterEvents(fired)
                  ELSE /\ calls' = Append(calls, CallRecord(p, id, w))
                       /\ loads' = Append(LoadsAfterEvents(fired),
                                          LoadRecord(p, Acked(p) + 1))
                       /\ cache' = [CacheAfterEvents(fired) EXCEPT ![p] = id]
          ELSE /\ muts' = [settled EXCEPT ![w] =
                     [@ EXCEPT !.stage = "failed", !.error = muts[m].proc.error]]
               /\ gate' = IF Gated(muts[w].op)
                          THEN [left EXCEPT ![p] = SelectSeq(@, LAMBDA x : x # w)]
                          ELSE left
               /\ cache' = CacheAfterEvents(fired)
               /\ loads' = LoadsAfterEvents(fired)
               /\ UNCHANGED calls
    /\ UNCHANGED <<explain, tool>>

\* const [remote] = ...: the first element, undefined for an empty array
FirstOf(remotes) == IF remotes = <<>> THEN Undefined ELSE Head(remotes)

\* the call resumes after `await remotesPromise` with its options (filter,
\* sort): filter, sort, return; a rejected promise makes the call reject.
\* A call made by addRemoteWithResult has the filter r.url === url and no
\* sort, and its settling resumes that method, which returns the first
\* element (or rejects as the call did) and leaves the gate.
AfterAwait(c, filter, sort) ==
    /\ calls[c].stage = "awaiting"
    /\ LET f == calls[c].promise
           w == calls[c].owner
       IN
       /\ loads[f].stage \in {"fulfilled", "rejected"}
       /\ w # 0 => (filter = muts[w].url /\ ~sort)
       /\ IF loads[f].stage = "rejected"
          THEN /\ calls' = [calls EXCEPT ![c] = [@ EXCEPT !.stage = "threw"]]
               /\ UNCHANGED loads
          ELSE /\ calls' = [calls EXCEPT ![c] =
                     [@ EXCEPT !.stage = "returned", !.filter = filter, !.sort = sort,
                               !.result = ResultOf(f, loads[f].value, filter, sort)]]
               /\ loads' = [loads EXCEPT ![f] =
                     [@ EXCEPT !.value = CachedValueAfter(@, filter, sort)]]
       /\ IF w = 0
          THEN UNCHANGED <<muts, gate>>
          ELSE /\ muts' = [muts EXCEPT ![w] =
                     IF loads[f].stage = "rejected"
                     THEN [@ EXCEPT !.stage = "failed", !.error = "rejected"]
                     ELSE [@ EXCEPT !.stage = "done",
                                    !.result = FirstOf(ApplyFilter(loads[f].value, filter))]]
               /\ gate' = IF Gated(muts[w].op) THEN GateLeave(muts[w].repoPath, w)
                          ELSE gate
    /\ UNCHANGED <<explain, tool, cache>>

----------------------------------------------------------------------------

\* the steps of the program when the calls address the repositories R
NextOn(R) ==
    \/ \E p \in R \cup {None} : GetRemotes(p)
    \/ \E f \in DOMAIN loads : LoadProviders(f)
    \/ \E f \in DOMAIN loads : ToolExitLoad(f)
    \/ \E f \in DOMAIN loads : LoadExecDone(f)
    \/ \E f \in DOMAIN loads : LoadMatcher(f)
    \/ \E c \in DOMAIN calls, filter \in Filters, sort \in BOOLEAN :
          AfterAwait(c, filter, sort)
    \/ \E p \in R : ExternalReset(p)
    \/ \E p \in R, r \in Added, fetch \in BOOLEAN : AddRemote(p, r.name, r.url, fetch)
    \/ \E p \in R, r \in Added, fetch \in BOOLEAN :
          AddRemoteWithResult(p, r.name, r.url, fetch)
    \/ \E p \in R, r \in Added : PruneRemote(p, r.name)
    \/ \E p \in R, r \in Added : RemoveRemote(p, r.name)
    \/ \E m \in DOMAIN muts : GateResume(m)
    \/ \E m \in DOMAIN muts : ToolExitMut(m)
    \/ \E m \in DOMAIN muts : Settle(m)

\* every call addresses repoA
Next == NextOn({"repoA"})
Spec == Init /\ [][Next]_vars

\* the calls address repoA and repoB
NextRepos == NextOn(Repos)
SpecRepos == Init /\ [][NextRepos]_vars

----------------------------------------------------------------------------
\* ExplainCommitCommand

\* the view node of the command context and what a caller can pass
NodeRepoPath == "repoA"
NodeSha == "sha-node"
ArgRevs == {None, "sha-arg"}
ArgSources == {NoSource, [source |-> "graph", type |-> "commit"]}
ArgsGiven ==
    {[repoPath |-> p, rev |-> r, source |-> src] :
        p \in {None, "repoA"}, r \in ArgRevs, src \in ArgSources}
PickedSha == "sha-pick"
Failures == {"Error"}

\* preExecute: from a view node that has a commit, repoPath, rev and source
\* default to the node's
preExecuteArgs(node, stash, args) ==
    IF node
    THEN [repoPath |-> IF args.repoPath # None THEN args.repoPath ELSE NodeRepoPath,
          rev |-> IF args.rev # None THEN args.rev ELSE NodeSha,
          source |-> IF args.source # NoSource THEN args.source
                     ELSE [source |-> "view",
                           type |-> IF stash THEN "stash" ELSE "commit"]]
    ELSE args

\* the source object execute passes to the AI service:
\* {...args.source, source: args.source?.source ?? 'commandPalette', type: 'commit'}
AISource(source) ==
    [source |-> IF source.source # Undefined THEN source.source ELSE "commandPalette",
     type |-> "commit"]

\* the try block opens: without a rev execute awaits getLog, with one getCommit
EnterTry(x) ==
    IF x.args.rev = None THEN [x EXCEPT !.pc = "getLog"]
    ELSE [x EXCEPT !.pc = "getCommit"]

\* execute up to its first await: getRepository(args.repoPath) finds the
\* repository or not; without one execute awaits the repository picker
execute(x, found) ==
    IF x.args.repoPath # None /\ found
    THEN EnterTry([x EXCEPT !.repository = x.args.repoPath])
    ELSE [x EXCEPT !.pc = "pickRepo"]

\* the command is run with a command context
PreExecute(node, stash, args, found) ==
    /\ explain.pc = "idle"
    /\ stash => node
    /\ explain' = execute([NoRun EXCEPT !.via = "preExecute", !.node = node,
                                        !.stash = stash, !.given = args.source,
                                        !.args = preExecuteArgs(node, stash, args)],
                          found)
    /\ UNCHANGED provider

\* execute is called directly
Execute(args, found) ==
    /\ explain.pc = "idle"
    /\ explain' = execute([NoRun EXCEPT !.via = "execute", !.given = args.source,
                                        !.args = args],
                          found)
    /\ UNCHANGED provider

\* getBestRepositoryOrShowPicker settles, outside the try: a repository,
\* none (execute returns), or a rejection (execute rejects)
RepoPicked ==
    /\ explain.pc = "pickRepo"
    /\ \/ explain' = EnterTry([explain EXCEPT !.repository = NodeRepoPath])
       \/ explain' = [explain EXCEPT !.pc = "done", !.exit = "norepo"]
       \/ explain' = [explain EXCEPT !.pc = "rejected", !.exit = "rejected"]
    /\ UNCHANGED provider

\* an execute whose catch block rethrows
Catch_Rethrow(x, ex) == [x EXCEPT !.pc = "rejected", !.exit = "rejected"]

\* catch (ex): Logger.error, showGenericErrorMessage('Unable to explain commit')
Catch(x, ex) ==
    [x EXCEPT !.logged = ex, !.errors = Append(@, "Unable to explain commit"),
              !.pc = "done", !.exit = "caught"]

\* this.container.ai.explainCommit(commit, source, options) is called
Explain(x) ==
    [x EXCEPT !.ai = Append(@, [commit |-> x.commit,
                                source |-> AISource(x.args.source)]),
              !.pc = "ai"]

\* getLog settles: execute shows the commit picker, or the catch block runs
LogLoaded ==
    /\ explain.pc = "getLog"
    /\ \/ explain' = [explain EXCEPT !.pc = "pickCommit"]
       \/ \E ex \in Failures : explain' = Catch(explain, ex)
    /\ UNCHANGED provider

\* a picker whose dismissal goes unnoticed
PickDismissed_Never(pick) == FALSE

\* if (pick?.sha == null) return
PickDismissed(pick) == pick = None

\* showCommitPicker settles: a commit, none (execute returns), or a rejection
CommitPicked ==
    /\ explain.pc = "pickCommit"
    /\ \/ \E pick \in {None, PickedSha} :
             explain' =
                IF PickDismissed(pick)
                THEN [explain EXCEPT !.pc = "done", !.exit = "dismissed"]
                ELSE Explain([explain EXCEPT !.args = [@ EXCEPT !.rev = pick],
                                             !.commit = pick])
       \/ \E ex \in Failures : explain' = Catch(explain, ex)
    /\ UNCHANGED provider

\* getCommit(args.rev) settles: the commit, none (an error message, then
\* execute returns), or a rejection
CommitLoaded ==
    /\ explain.pc = "getCommit"
    /\ \/ \E commit \in {None, explain.args.rev} :
             explain' =
                IF commit = None
                THEN [explain EXCEPT
                         !.errors = Append(@, "Unable to find the specified commit"),
                         !.pc = "done", !.exit = "notfound"]
                ELSE Explain([explain EXCEPT !.commit = commit])
       \/ \E ex \in Failures : explain' = Catch(explain, ex)
    /\ UNCHANGED provider

\* the AI service settles: a result (the markdown preview is shown), none
\* (an error message), or a rejection
Explained ==
    /\ explain.pc = "ai"
    /\ \/ \E result \in {None, "summary"} :
             explain' =
                IF result = None
                THEN [explain EXCEPT
                         !.errors = Append(@, "No changes found to explain for commit"),
                         !.pc = "done", !.exit = "noresult"]
                ELSE [explain EXCEPT
                         !.result = result,
                         !.previews = Append(@, <<"# Commit Summary", explain.commit, result>>),
                         !.pc = "done", !.exit = "preview"]
       \/ \E ex \in Failures : explain' = Catch(explain, ex)
    /\ UNCHANGED provider

NextExplain ==
    \/ \E node \in BOOLEAN, stash \in BOOLEAN, args \in ArgsGiven, found \in BOOLEAN :
          PreExecute(node, stash, args, found)
    \/ \E args \in ArgsGiven, found \in BOOLEAN : Execute(args, found)
    \/ RepoPicked
    \/ LogLoaded
    \/ CommitPicked
    \/ CommitLoaded
    \/ Explained

SpecExplain == Init /\ [][NextExplain]_vars

----------------------------------------------------------------------------
\* Properties

Range(s) == {s[i] : i \in DOMAIN s}
LoadsOf(repoPath) == {f \in DOMAIN loads : loads[f].repoPath = repoPath}
Running(f) == loads[f].proc.status = "running"
Pending(f) == loads[f].stage \in {"providers", "exec", "matcher"}
ToolFailed(f) ==
    loads[f].stage = "fulfilled" /\ loads[f].proc.status = "exited" /\ ~loads[f].proc.ok
Joined(c) == calls[c].promise # c

\* C1 as stated: for every repository path at most one `remote -v`
\* invocation started by getRemotes is in flight at any time, whatever
\* cache resets, mutations and failing fetches interleave.
C1_SingleFlight ==
    \A p \in Repos : Cardinality({f \in LoadsOf(p) : Running(f)}) <= 1

\* C1 amended: for every repository path at most one `remote -v` invocation
\* whose promise has not been evicted from the cache (by a cache reset or by
\* a failing fetch's delete) is in flight, indeed at most one such load is
\* pending at all, and a call that finds a promise cached awaits it and
\* starts no load of its own.
C1_SingleFlightUnlessEvicted ==
    /\ \A p \in Repos :
          Cardinality({f \in LoadsOf(p) : Pending(f) /\ ~loads[f].evicted}) <= 1
    /\ \A f \in DOMAIN loads : (Pending(f) /\ ~loads[f].evicted) =>
          cache[loads[f].repoPath] = f
    /\ \A c \in DOMAIN calls : Joined(c) => loads[c].stage = "none"

\* a second call awaits the promise of a load whose invocation is in flight
C1_Witness ==
    \E c \in DOMAIN calls :
        /\ Joined(c)
        /\ calls[c].stage = "awaiting"
        /\ Running(calls[c].promise)
        /\ ~loads[calls[c].promise].evicted

\* C2: a getRemotes call is never served by a promise installed before the
\* latest successful addRemote, pruneRemote or removeRemote of its
\* repository completed: the promise it awaits was installed after that
\* mutation's cache reset; and when it is served from the cache while no
\* mutation is executing, the output the cached load read is the tool's
\* current listing.
C2_NextCallRefetches ==
    [][Len(calls') > Len(calls) =>
        LET c == Len(calls')
            p == calls'[c].repoPath
            f == calls'[c].promise
        IN p # None =>
           /\ loads'[f].ack = Acked(p)
           /\ (/\ f # c
               /\ loads[f].proc.status = "exited"
               /\ loads[f].proc.ok
               /\ \A m \in DOMAIN muts :
                     muts[m].repoPath = p => muts[m].stage # "exec")
              => loads[f].proc.stdout = ToolStdout(tool[p])]_vars

\* a load cached before an addRemote lacks the added remote; after the
\* addRemote succeeded a call started a load of its own, whose invocation
\* read the added remote
C2_Witness ==
    \E m \in DOMAIN muts, c \in DOMAIN calls :
        /\ muts[m].op = "addRemote"
        /\ muts[m].stage = "done"
        /\ calls[c].repoPath = muts[m].repoPath
        /\ ~Joined(c)
        /\ loads[c].ack = Acked(muts[m].repoPath)
        /\ loads[c].stage = "fulfilled"
        /\ \E i \in DOMAIN loads[c].value : loads[c].value[i].name = muts[m].name
        /\ \E d \in DOMAIN calls :
              /\ d < c
              /\ calls[d].repoPath = muts[m].repoPath
              /\ loads[d].stage = "fulfilled"
              /\ loads[d].evicted
              /\ \A i \in DOMAIN loads[d].value : loads[d].value[i].name # muts[m].name

\* C3: when the `remote -v` invocation of a load fails, the load's promise
\* resolves to an empty collection and the error is logged, no call awaiting
\* it rejects and each one returns an empty collection, and the cache does
\* not hold the failed promise, so that a call issued after the failure is
\* not served by it.
C3_ToolFailureEvicted ==
    \A f \in DOMAIN loads : ToolFailed(f) =>
        /\ loads[f].value = <<>>
        /\ loads[f].logged = loads[f].proc.error
        /\ cache[loads[f].repoPath] # f
        /\ \A c \in DOMAIN calls : calls[c].promise = f =>
              /\ calls[c].stage # "threw"
              /\ calls[c].stage = "returned" => Observed(c) = <<>>

\* a load failed in the tool, two calls awaiting it returned the empty
\* collection, and a later call started a load that invoked the tool again
C3_Witness ==
    \E f \in DOMAIN loads, c \in DOMAIN calls, d \in DOMAIN calls :
        /\ ToolFailed(f)
        /\ c # f /\ calls[c].promise = f /\ calls[c].stage = "returned"
        /\ calls[f].stage = "returned"
        /\ d > c /\ calls[d].repoPath = loads[f].repoPath
        /\ calls[d].promise = d
        /\ loads[d].proc.n = 1

Started(m) == muts[m].proc.status # "none"
Settled(m) == muts[m].stage \in {"done", "failed"}
CacheReset(repoPath) ==
    [name |-> "git:cache:reset", repoPath |-> repoPath, types |-> <<"remotes">>]

\* C4: of two gated calls (addRemote, pruneRemote, removeRemote) for the
\* same repository, the later one's tool invocation starts only after the
\* earlier call has settled: the invocations never overlap and start in
\* call order.
C4_GateFifo ==
    \A i \in DOMAIN muts, j \in DOMAIN muts :
        (i < j /\ muts[i].repoPath = muts[j].repoPath /\ Started(j)) =>
            /\ Settled(i)
            /\ muts[i].proc.status \in {"none", "exited"}

\* removeRemote then addRemote were called for one repository before the
\* first completed: the first holds the gate, its tool running, and the
\* second waits
C4_Witness ==
    \E i \in DOMAIN muts, j \in DOMAIN muts :
        /\ i < j
        /\ muts[i].repoPath = muts[j].repoPath
        /\ muts[i].op = "removeRemote" /\ muts[j].op = "addRemote"
        /\ muts[i].stage = "exec" /\ muts[i].proc.status = "running"
        /\ muts[j].stage = "queued"
        /\ gate[muts[i].repoPath] = <<i, j>>

\* C5: when the tool invocation of addRemote, pruneRemote or removeRemote
\* fails, the call rejects with the tool's own error, fires no event, and
\* leaves the cache as it was.
C5_MutationFailurePropagates ==
    [][\A m \in DOMAIN muts :
          (muts[m].stage = "exec" /\ muts'[m].stage # "exec" /\ ~muts[m].proc.ok) =>
              /\ muts'[m].stage = "failed"
              /\ muts'[m].error = muts[m].proc.error
              /\ muts'[m].error \in ToolErrors
              /\ muts'[m].fired = <<>>
              /\ cache' = cache]_vars

\* a mutation failed while the cache held a promise for its repository,
\* which it still holds
C5_Witness ==
    \E m \in DOMAIN muts :
        /\ muts[m].stage = "failed"
        /\ cache[muts[m].repoPath] # NoEntry
        /\ loads[cache[muts[m].repoPath]].ack = Acked(muts[m].repoPath)
        /\ m > 1

\* C6: addRemote invokes the tool once, in repoPath, with `remote add`,
\* then `-f` exactly when fetch is set, then name and url; every successful
\* addRemote, pruneRemote and removeRemote has fired exactly one
\* git:cache:reset event for {repoPath, types: ['remotes']}, and an event is
\* fired only by a call whose tool invocation has exited successfully.
C6_AddRemoteInvocation ==
    \A m \in DOMAIN muts :
        /\ (muts[m].op = "addRemote" /\ Started(m)) =>
              /\ muts[m].proc.n = 1
              /\ muts[m].proc.cwd = muts[m].repoPath
              /\ muts[m].proc.argv =
                    IF muts[m].fetch
                    THEN <<"remote", "add", "-f", muts[m].name, muts[m].url>>
                    ELSE <<"remote", "add", muts[m].name, muts[m].url>>
        /\ (muts[m].stage = "done" /\ muts[m].op # "addRemoteWithResult") =>
              muts[m].fired = <<CacheReset(muts[m].repoPath)>>
        /\ muts[m].fired # <<>> =>
              /\ muts[m].proc.status = "exited"
              /\ muts[m].proc.ok
        /\ muts[m].stage \in {"queued", "exec"} => muts[m].fired = <<>>

\* an addRemote with fetch set and one without have both succeeded
C6_Witness ==
    \E m \in DOMAIN muts, k \in DOMAIN muts :
        /\ muts[m].op = "addRemote" /\ muts[m].fetch /\ muts[m].stage = "done"
        /\ muts[k].op = "addRemote" /\ ~muts[k].fetch /\ muts[k].stage = "done"

\* C7 as stated: no getRemotes call rejects, whatever fails on the miss
\* path, and the cache never holds a rejected promise.
C7_ReadFailuresAbsorbed ==
    /\ \A c \in DOMAIN calls : calls[c].stage # "threw"
    /\ \A p \in Repos :
          cache[p] # NoEntry => loads[cache[p]].stage # "rejected"

\* C8 as stated: the collection the cached promise holds stays as load()
\* resolved it, whatever the calls that await it do with their result.
C8_CachedByValue ==
    \A f \in DOMAIN loads :
        (loads[f].stage = "fulfilled" /\ loads[f].logged = None) =>
            loads[f].value = parseGitRemotes(loads[f].proc.stdout, {})

\* C9: a getRemotes call with a filter returns an array of its own and
\* leaves every cached collection as it was, elements and order.
C9_FilterLeavesCache ==
    [][\A c \in DOMAIN calls :
          (calls[c].stage = "awaiting" /\ calls'[c].stage = "returned"
           /\ calls'[c].filter # NoFilter) =>
              /\ calls'[c].result.kind = "own"
              /\ \A f \in DOMAIN loads : loads'[f].value = loads[f].value]_vars

\* a filtered call (which the filter left with fewer remotes) and an
\* unfiltered call awaited the same promise; the unfiltered one observes
\* the full collection
C9_Witness ==
    \E c \in DOMAIN calls, d \in DOMAIN calls :
        /\ calls[c].promise = calls[d].promise
        /\ calls[c].stage = "returned" /\ calls[c].filter # NoFilter
        /\ calls[d].stage = "returned" /\ calls[d].filter = NoFilter
        /\ Len(Observed(c)) < Len(Observed(d))
        /\ Range(Observed(d)) =
              Range(parseGitRemotes(loads[calls[d].promise].proc.stdout, {}))

\* no load of repoPath is pending and no mutation of it is queued or running
Quiescent(repoPath) ==
    /\ \A f \in LoadsOf(repoPath) : ~Pending(f)
    /\ \A m \in DOMAIN muts : muts[m].repoPath = repoPath => Settled(m)

\* C10: once the mutations of a repository have settled and no load of it
\* is pending, a collection the cache holds for it has exactly the tool's
\* current remotes, so that the next getRemotes call returns them from the
\* cache or from a new load.
C10_ConvergesWhenQuiescent ==
    \A p \in Repos :
        (Quiescent(p) /\ cache[p] # NoEntry /\ loads[cache[p]].stage = "fulfilled") =>
            /\ loads[cache[p]].logged = None
            /\ Range(loads[cache[p]].value) = Range(tool[p])

\* a load raced a mutation and resolved with the remotes from before it;
\* it was evicted, and the cache now holds a later load's current remotes
C10_Witness ==
    \E p \in Repos, f \in DOMAIN loads :
        /\ Quiescent(p)
        /\ loads[f].repoPath = p
        /\ loads[f].stage = "fulfilled" /\ loads[f].logged = None
        /\ Range(loads[f].value) # Range(tool[p])
        /\ loads[f].evicted
        /\ cache[p] # NoEntry
        /\ loads[cache[p]].stage = "fulfilled"
        /\ Range(loads[cache[p]].value) = Range(tool[p])

\* C11: a getRemotes call with no repoPath returns an empty collection at
\* once: it does not reject, it awaits no cached promise and starts no load
\* (so no tool invocation), and the cache, the loads already started and the
\* tool's remotes stay as they were.
C11_NoPathReturnsEmpty ==
    [][(Len(calls') > Len(calls) /\ calls'[Len(calls')].repoPath = None) =>
          LET c == Len(calls') IN
          /\ calls'[c].stage = "returned"
          /\ calls'[c].result.kind = "own"
          /\ calls'[c].result.arr = <<>>
          /\ calls'[c].promise = NoEntry
          /\ loads'[c] = NoLoad
          /\ \A f \in DOMAIN loads : loads'[f] = loads[f]
          /\ cache' = cache
          /\ tool' = tool]_vars

\* a call with no repoPath has returned while the cache holds the promise
\* of a load whose tool invocation is still running
C11_Witness ==
    \E c \in DOMAIN calls, f \in DOMAIN loads :
        /\ calls[c].repoPath = None
        /\ calls[c].stage = "returned"
        /\ f < c
        /\ Running(f)
        /\ cache[loads[f].repoPath] = f

\* C12: as long as the promise of a load has not been evicted (no cache
\* reset for its repoPath was delivered and no other load of that repoPath
\* failed), every getRemotes call issued for the repoPath since the load
\* started awaits that same promise and starts no load of its own, and the
\* load has invoked `remote -v` at most once, exactly once when it has come
\* past its tool invocation; while the load is suspended the cache holds
\* its promise.
C12_SharedWhileCached ==
    \A f \in DOMAIN loads : (loads[f].stage # "none" /\ ~loads[f].evicted) =>
        /\ loads[f].proc.n <= 1
        /\ loads[f].stage \in {"exec", "matcher"} => loads[f].proc.n = 1
        /\ Pending(f) => cache[loads[f].repoPath] = f
        /\ \A c \in DOMAIN calls :
              (c > f /\ calls[c].repoPath = loads[f].repoPath) =>
                  /\ calls[c].promise = f
                  /\ loads[c].stage = "none"

\* three calls for one repoPath were issued while the first one's load was
\* pending; all three returned from its promise, on one tool invocation
C12_Witness ==
    \E f \in DOMAIN loads, c \in DOMAIN calls, d \in DOMAIN calls :
        /\ f < c /\ c < d
        /\ ~loads[f].evicted
        /\ loads[f].stage = "fulfilled" /\ loads[f].logged = None
        /\ loads[f].proc.n = 1
        /\ calls[f].promise = f /\ calls[c].promise = f /\ calls[d].promise = f
        /\ calls[f].stage = "returned"
        /\ calls[c].stage = "returned"
        /\ calls[d].stage = "returned"

\* the steps the provider takes by itself: tool processes exiting and the
\* continuations of the calls already made
Internal ==
    \/ \E f \in DOMAIN loads :
          LoadProviders(f) \/ ToolExitLoad(f) \/ LoadExecDone(f) \/ LoadMatcher(f)
    \/ \E c \in DOMAIN calls, filter \in Filters, sort \in BOOLEAN :
          AfterAwait(c, filter, sort)
    \/ \E m \in DOMAIN muts : GateResume(m) \/ ToolExitMut(m) \/ Settle(m)

\* every tool process has exited and no continuation is left to run
Idle == ~ENABLED Internal

WithResult(w) == muts[w].op = "addRemoteWithResult"

\* C13 as stated: an addRemoteWithResult call performs its addRemote and
\* then its query: once the provider has nothing left to run, the call has
\* either returned the first remote with the given url (or none) of a
\* collection whose `remote -v` started after its addRemote had succeeded,
\* or rejected with its addRemote's error without having queried (or
\* rejected because its query did).
C13_AddThenQuery ==
    Idle => \A w \in DOMAIN muts : WithResult(w) =>
        \/ /\ muts[w].stage = "done"
           /\ muts[muts[w].inner].stage = "done"
           /\ muts[w].query # 0
           /\ loads[calls[muts[w].query].promise].ack >= 1
           /\ muts[w].result =
                 FirstOf(ApplyFilter(loads[calls[muts[w].query].promise].value,
                                     muts[w].url))
        \/ /\ muts[w].stage = "failed"
           /\ muts[muts[w].inner].stage = "failed"
           /\ muts[w].error = muts[muts[w].inner].error
           /\ muts[w].query = 0
        \/ /\ muts[w].stage = "failed"
           /\ muts[muts[w].inner].stage = "done"
           /\ muts[w].query # 0
           /\ calls[muts[w].query].stage = "threw"

\* C14 as stated: no gated call is left waiting: once the provider has
\* nothing left to run, every addRemoteWithResult call has completed and
\* every queued gated call has run and settled.
C14_GatedCallsComplete ==
    Idle => \A m \in DOMAIN muts : Settled(m)

\* C15 as stated: the catch block of a failing load removes no cache entry
\* but that load's own: an entry that holds another load's promise stays.
C15_FailureEvictsOwnEntry ==
    [][\A f \in DOMAIN loads :
          (Pending(f) /\ loads'[f].stage = "fulfilled" /\ loads'[f].logged # None) =>
              \A p \in Repos : cache[p] # f => cache'[p] = cache[p]]_vars

\* the step concerns repoPath: a getRemotes call for it is issued, a load
\* of it moves, or a gated call for it is made or moves
Touches(repoPath) ==
    \/ Len(calls') > Len(calls) /\ calls'[Len(calls')].repoPath = repoPath
    \/ \E f \in DOMAIN loads : loads[f].repoPath = repoPath /\ loads'[f] # loads[f]
    \/ \E m \in DOMAIN muts' :
          /\ muts'[m].repoPath = repoPath
          /\ m \in DOMAIN muts => muts'[m] # muts[m]

\* C16: a step of a getRemotes call, a load, a gated call or a cache reset
\* for one repoPath leaves the cache entry, the gate and the tool's remotes
\* of every other repoPath as they were; the gate of a repoPath queues only
\* calls for that repoPath, and a gated call made while the gate of its
\* repoPath is free runs at once, whatever the other gates hold.
C16_PerKeyIsolation ==
    [][/\ \A q \in Repos : ~Touches(q) =>
             /\ cache'[q] = cache[q]
             /\ gate'[q] = gate[q]
             /\ tool'[q] = tool[q]
       /\ \A q \in Repos : \A i \in DOMAIN gate'[q] :
             muts'[gate'[q][i]].repoPath = q
       /\ \A m \in DOMAIN muts' :
             (m \notin DOMAIN muts /\ muts'[m].owner = 0
              /\ gate[muts'[m].repoPath] = <<>>) =>
                 muts'[m].stage # "queued"]_vars

\* a gated call for one repoPath has its tool running and a second one
\* waits behind it, while a gated call made later for the other repoPath
\* has its tool running too
C16_Witness ==
    \E i \in DOMAIN muts, j \in DOMAIN muts, k \in DOMAIN muts :
        /\ i < j /\ j < k
        /\ muts[i].repoPath = muts[j].repoPath
        /\ muts[k].repoPath # muts[i].repoPath
        /\ muts[i].proc.status = "running"
        /\ muts[j].stage = "queued"
        /\ muts[k].proc.status = "running"

\* C17: execute calls the AI service at most once, and only with a
\* repository and a commit resolved; when it left because no repository was
\* resolved, the commit picker was dismissed or the rev has no commit, and
\* at every point before the commit is resolved, the AI service has not
\* been called and no markdown preview has been shown.
C17_ExplainOnceWithCommit ==
    /\ Len(explain.ai) <= 1
    /\ explain.ai # <<>> =>
          /\ explain.repository # None
          /\ explain.commit # None
          /\ explain.ai[1].commit = explain.commit
    /\ explain.exit \in {"norepo", "dismissed", "notfound"} =>
          explain.ai = <<>> /\ explain.previews = <<>>
    /\ explain.pc \in {"idle", "pickRepo", "getLog", "pickCommit", "getCommit"} =>
          explain.ai = <<>> /\ explain.previews = <<>>
    /\ explain.previews # <<>> => Len(explain.ai) = 1

\* the user picked a repository and a commit, the AI service was called
\* once with the picked commit, and the preview was shown
C17_Witness ==
    /\ explain.exit = "preview"
    /\ explain.args.repoPath = None
    /\ explain.commit = PickedSha
    /\ Len(explain.ai) = 1

\* C18: with a repository resolved, execute does not reject, and when it
\* has ended it has shown nothing (picker dismissed), or one generic error
\* message and no preview (commit not found, no AI result, or a failure
\* caught), or one preview and no error message; a preview is shown only
\* for a non-null AI result.
C18_OneOutcome ==
    explain.repository # None =>
        /\ explain.pc # "rejected"
        /\ Len(explain.errors) + Len(explain.previews) <= 1
        /\ explain.previews # <<>> => explain.result # None
        /\ explain.pc = "done" =>
              \/ /\ explain.exit = "dismissed"
                 /\ explain.errors = <<>> /\ explain.previews = <<>>
              \/ /\ explain.exit \in {"notfound", "noresult", "caught"}
                 /\ Len(explain.errors) = 1 /\ explain.previews = <<>>
              \/ /\ explain.exit = "preview"
                 /\ explain.errors = <<>> /\ Len(explain.previews) = 1

\* the AI service rejected: the catch block logged the failure and showed
\* one error message, and execute ended without a preview
C18_Witness ==
    /\ explain.pc = "done"
    /\ explain.exit = "caught"
    /\ Len(explain.ai) = 1
    /\ explain.logged \in Failures
    /\ explain.errors = <<"Unable to explain commit">>

\* C19 as stated: the source the AI service receives is the one preExecute
\* determined: from a view node whose commit is a stash, with no source
\* from the caller, source 'view' with type 'stash'; with no source
\* determined, source 'commandPalette' with type 'commit'.
C19_SourcePreserved ==
    \A i \in DOMAIN explain.ai :
        /\ (explain.via = "preExecute" /\ explain.node /\ explain.stash
            /\ explain.given = NoSource) =>
               explain.ai[i].source = [source |-> "view", type |-> "stash"]
        /\ explain.args.source = NoSource =>
               explain.ai[i].source = [source |-> "commandPalette", type |-> "commit"]

====
